---------------------------- MODULE Spec2Model ----------------------------
(***************************************************************************)
(* A model of pythonrouge (src/pythonrouge/__init__.py): the PythonROUGE   *)
(* evaluator.  Four parts of the class are modelled, each with its own     *)
(* specification over the same state:                                      *)
(*   SpecCmd    __init__, _get_rouge_cmd and run_rouge (command line)      *)
(*   SpecParse  output_to_dict (the line scanner)                          *)
(*   SpecStage  convert_and_config (staged files and config.xml)           *)
(*   SpecEval   evaluate (staging, scorer, cleanup, parsing)               *)
(* Python values are modelled as follows: str as a TLA+ string, a list as  *)
(* a sequence, a dict as a function whose DOMAIN is the set of its keys,   *)
(* the text of a file as a sequence of one-character strings, a float as   *)
(* its decimal string (configuration) or a small integer (scores).         *)
(***************************************************************************)
EXTENDS Integers, Sequences, FiniteSets, TLC

VARIABLES
    self,           \* the fields __init__ stores on the evaluator
    obj,            \* "new" | "constructed" | the exception __init__ raised
    rouge_cmd_tmp,  \* self.rouge_cmd_tmp, the cached command template
    executed,       \* argument lists handed to subprocess.check_output
    recall_only,    \* output_to_dict argument
    f_measure_only, \* output_to_dict argument
    ppc,            \* position of output_to_dict
    line,           \* the line of `outputs` the loop body last ran on
    pos,            \* number of lines the loop has consumed
    n,              \* output_to_dict's local n
    result,         \* output_to_dict's local result
    summary,        \* argument of convert_and_config / evaluate
    reference,      \* argument of convert_and_config / evaluate
    to_dict,        \* argument of evaluate
    pc,             \* position of evaluate / convert_and_config
    dirs,           \* the directories that exist on disk
    files,          \* path -> text, the regular files that exist on disk
    arg_dir,        \* the output_dir argument of convert_and_config
    output_dir,     \* convert_and_config's output_dir of the current call
    config_path,    \* the path of the job descriptor of the current call
    calls,          \* number of calls started so far
    tmp_count,      \* number of directories mkdtemp has handed out
    raised,         \* the exception the current call ended with, or "none"
    output,         \* the bytes run_rouge captured, as lines
    ret             \* the value the current call returned

vars == <<self, obj, rouge_cmd_tmp, executed, recall_only, f_measure_only,
          ppc, line, pos, n, result, summary, reference, to_dict, pc, dirs,
          files, arg_dir, output_dir, config_path, calls, tmp_count, raised,
          output, ret>>

cmdVars   == <<self, obj, rouge_cmd_tmp, executed>>
parseVars == <<recall_only, f_measure_only, ppc, line, pos, n, result>>
evalVars  == <<summary, reference, to_dict, pc, dirs, files, arg_dir,
               output_dir, config_path, calls, tmp_count, raised, output, ret>>

-----------------------------------------------------------------------------
(* Bounds of the model *)

MaxNGram == 2
MaxLength == 1
MaxRuns == 2
MaxLines == 2
MaxOrder == 2
MaxScore == 2
MaxWeight == 4
MaxEvalWeight == 3
MaxRefs == 8
MaxCalls == 2

-----------------------------------------------------------------------------
(* Python helpers *)

\* The None object (not a string of the program).
None == "<None>"

\* bool(v) of a str-or-None value.
Truthy(v) == v # "" /\ v # None

Digits == <<"0", "1", "2", "3", "4", "5", "6", "7", "8", "9">>

RECURSIVE Str(_)
\* "{}".format(k) of a non-negative int.
Str(k) == IF k < 10 THEN Digits[k + 1]
          ELSE Str(k \div 10) \o Digits[(k % 10) + 1]

\* The working directory of the process.
Cwd == "/home/user"

AbsolutePaths == {"/opt/ROUGE-1.5.5/data"}

\* os.path.abspath: an absolute path is kept, a relative one is joined
\* to the working directory.
AbsPath(p) == IF p \in AbsolutePaths THEN p ELSE Cwd \o "/" \o p

\* A path of the staging area is the sequence of its components;
\* os.path.join(a, b) of a directory and a relative name.
PathJoin(a, b) == Append(a, b)

RECURSIVE PathStr(_)
\* The string of an absolute path, as it is put on the command line.
PathStr(path) ==
    IF path = <<>> THEN "" ELSE PathStr(SubSeq(path, 1, Len(path) - 1)) \o "/" \o path[Len(path)]

\* path is root or lies under it.
Under(root, path) ==
    Len(path) >= Len(root) /\ SubSeq(path, 1, Len(root)) = root

-----------------------------------------------------------------------------
(* __init__ and _get_rouge_cmd *)

DefaultConfig ==
    [ROUGE_path |-> "ROUGE-1.5.5.pl", data_path |-> "/opt/ROUGE-1.5.5/data",
     n_gram |-> 2, ROUGE_SU4 |-> TRUE, ROUGE_L |-> FALSE, ROUGE_W |-> FALSE,
     ROUGE_W_Weight |-> "1.2", stemming |-> TRUE, stopwords |-> FALSE,
     word_level |-> TRUE, length_limit |-> TRUE, length |-> 100,
     use_cf |-> FALSE, cf |-> 95, scoring_formula |-> "average",
     resampling |-> TRUE, samples |-> 1000, favor |-> TRUE, p |-> "0.5"]

Opt(cond, args) == IF cond THEN args ELSE <<>>

BaseArgs(s) == <<"perl", AbsPath(s.ROUGE_path), "-e", AbsPath(s.data_path), "-a">>

NGramArgs(s) == <<"-n", Str(s.n_gram)>>

SU4Args(s) == Opt(s.ROUGE_SU4, <<"-2", "4", "-u">>)

LcsArgsSwapped(s) == Opt(s.ROUGE_L, <<"-x">>)

LcsArgs(s) == Opt(~s.ROUGE_L, <<"-x">>)

WeightArgs(s) == Opt(s.ROUGE_W, <<"-w", s.ROUGE_W_Weight>>)

LengthArgs(s) ==
    Opt(s.length_limit,
        IF s.word_level THEN <<"-l", Str(s.length)>> ELSE <<"-b", Str(s.length)>>)

StemArgs(s) == Opt(s.stemming, <<"-m">>)

StopArgs(s) == Opt(s.stopwords, <<"-s">>)

CfArgs(s) == Opt(s.use_cf, <<"-c", Str(s.cf)>>)

ScoringArgsAlwaysAverage(s) == <<"-f", "A">>

ScoringArgs(s) ==
    IF s.scoring_formula = "average" THEN <<"-f", "A">> ELSE <<"-f", "B">>

\* The else branch of the scoring-formula chain: neither "average" nor truthy.
ScoringRejected(s) ==
    s.scoring_formula # "average" /\ ~Truthy(s.scoring_formula)

ResamplingArgs(s) == Opt(s.resampling, <<"-r", Str(s.samples)>>)

FavorArgs(s) == Opt(s.favor, <<"-p", s.p>>)

\* _get_rouge_cmd: the exception it raises, or "none" and the list it returns.
GetRougeCmd(s) ==
    IF ~(s.n_gram > 0) THEN [raises |-> "AssertionError", cmd |-> <<>>]
    ELSE IF s.length_limit /\ ~(s.length > 0)
         THEN [raises |-> "AssertionError", cmd |-> <<>>]
    ELSE IF ScoringRejected(s) THEN [raises |-> "ValueError", cmd |-> <<>>]
    ELSE [raises |-> "none",
          cmd |-> BaseArgs(s) \o NGramArgs(s) \o SU4Args(s) \o LcsArgs(s)
                  \o WeightArgs(s) \o LengthArgs(s) \o StemArgs(s)
                  \o StopArgs(s) \o CfArgs(s) \o ScoringArgs(s)
                  \o ResamplingArgs(s) \o FavorArgs(s)]

\* __init__: the path checks, the field assignments, then the template.
Construct ==
    /\ obj = "new"
    /\ IF ~Truthy(self.ROUGE_path) \/ ~Truthy(self.data_path)
       THEN obj' = "ValueError" /\ UNCHANGED rouge_cmd_tmp
       ELSE LET r == GetRougeCmd(self) IN
            IF r.raises # "none"
            THEN obj' = r.raises /\ UNCHANGED rouge_cmd_tmp
            ELSE obj' = "constructed" /\ rouge_cmd_tmp' = r.cmd
    /\ UNCHANGED <<self, executed>>

\* run_rouge's argument list: the template plus the job-descriptor path.
RougeCmd(path) == rouge_cmd_tmp \o <<path>>

ConfigPaths == {"/tmp/tmp1/config.xml", "/tmp/tmp2/config.xml"}

\* run_rouge called on a constructed evaluator; the scorer's exit status
\* does not change what was executed.
CmdRunRouge ==
    /\ obj = "constructed"
    /\ Len(executed) < MaxRuns
    /\ \E path \in ConfigPaths :
          executed' = Append(executed, RougeCmd(path))
    /\ UNCHANGED <<self, obj, rouge_cmd_tmp>>

-----------------------------------------------------------------------------
(* States of the parts a specification does not exercise *)

NoLine == [tag |-> <<"none", 0>>, kinds |-> {}, score |-> 0]

EmptyDict == [k \in {} |-> 0]

ParseIdle ==
    /\ recall_only = FALSE /\ f_measure_only = FALSE
    /\ ppc = "idle" /\ line = NoLine /\ pos = 0 /\ n = 0
    /\ result = EmptyDict

EvalIdle ==
    /\ summary = <<>> /\ reference = <<>> /\ to_dict = FALSE
    /\ pc = "idle" /\ dirs = {} /\ files = EmptyDict
    /\ arg_dir = <<>> /\ output_dir = <<>> /\ config_path = <<>>
    /\ calls = 0 /\ tmp_count = 0 /\ raised = "none"
    /\ output = <<>> /\ ret = <<>>

-----------------------------------------------------------------------------
(* output_to_dict *)

\* A metric tag is <<family, order>>: ROUGE-SU4, ROUGE-L, ROUGE-W-<weight>
\* of the configured weight, and ROUGE-<k>.
SU4 == <<"SU4", 0>>
LCS == <<"L", 0>>
WLCS == <<"W", 0>>
NGram(k) == <<"N", k>>

Kinds == {"R", "P", "F"}

\* A result key: the metric and the suffix "", "-R", "-P" or "-F".
Key(tag, suffix) == <<tag[1], tag[2], suffix>>

\* An output line: the metric tag it reports, the Average_<kind> patterns
\* that occur on it and the score they carry.  NoLine matches nothing.
AllTags == {SU4, LCS, WLCS} \cup {NGram(k) : k \in 1..MaxOrder}

Lines ==
    {[tag |-> t, kinds |-> ks, score |-> v] :
        t \in AllTags, ks \in (SUBSET Kinds) \ {{}}, v \in 1..MaxScore}
    \cup {NoLine}

\* re.findall('A ROUGE-<tag> Average_<kind>: ([0-9.]+)', line)
FindAll(tag, kind, l) ==
    IF l.tag = tag /\ kind \in l.kinds THEN <<l.score>> ELSE <<>>

\* d[k] = v
Put(d, k, v) == [x \in (DOMAIN d) \cup {k} |-> IF x = k THEN v ELSE d[x]]

StoreRecallNoPass(res, tag, l, ro, fo) ==
    LET r_match == FindAll(tag, "R", l) IN
    IF r_match # <<>>
    THEN IF ro \/ fo THEN Put(res, Key(tag, ""), r_match[1])
         ELSE Put(res, Key(tag, "-R"), r_match[1])
    ELSE res

\* The recall branch of one family's block.
StoreRecall(res, tag, l, ro, fo) ==
    LET r_match == FindAll(tag, "R", l) IN
    IF r_match # <<>>
    THEN IF ro THEN Put(res, Key(tag, ""), r_match[1])
         ELSE IF fo THEN res
         ELSE Put(res, Key(tag, "-R"), r_match[1])
    ELSE res

StorePFIndependent(res, tag, l, ro, fo) ==
    LET p_match == FindAll(tag, "P", l)
        f_match == FindAll(tag, "F", l)
        res1 == IF p_match # <<>> /\ ~fo
                THEN Put(res, Key(tag, "-P"), p_match[1]) ELSE res
    IN  IF ~ro
        THEN IF fo /\ f_match # <<>>
             THEN Put(res, Key(tag, ""), f_match[1])
             ELSE IF f_match # <<>> /\ ~fo
                  THEN Put(res1, Key(tag, "-F"), f_match[1])
                  ELSE res1
        ELSE res

\* The precision / F-measure branch of one family's block.
StorePF(res, tag, l, ro, fo) ==
    LET p_match == FindAll(tag, "P", l)
        f_match == FindAll(tag, "F", l)
    IN  IF ~ro
        THEN IF fo /\ f_match # <<>>
             THEN Put(res, Key(tag, ""), f_match[1])
             ELSE IF p_match # <<>> /\ ~fo
                  THEN Put(res, Key(tag, "-P"), p_match[1])
                  ELSE IF f_match # <<>> /\ ~fo
                       THEN Put(res, Key(tag, "-F"), f_match[1])
                       ELSE res
        ELSE res

StoreMatches(res, tag, l, ro, fo) ==
    StorePF(StoreRecall(res, tag, l, ro, fo), tag, l, ro, fo)

ScanSU4(res, s, l, ro, fo) ==
    IF s.ROUGE_SU4 THEN StoreMatches(res, SU4, l, ro, fo) ELSE res

ScanLUnguarded(res, s, l, ro, fo) == StoreMatches(res, LCS, l, ro, fo)

ScanL(res, s, l, ro, fo) ==
    IF s.ROUGE_L THEN StoreMatches(res, LCS, l, ro, fo) ELSE res

ScanW(res, s, l, ro, fo) ==
    IF s.ROUGE_W THEN StoreMatches(res, WLCS, l, ro, fo) ELSE res

ScanN(res, nn, l, ro, fo) == StoreMatches(res, NGram(nn), l, ro, fo)

\* The loop body's effect on result.
ScanLine(res, nn, s, l, ro, fo) ==
    ScanN(ScanW(ScanL(ScanSU4(res, s, l, ro, fo), s, l, ro, fo), s, l, ro, fo),
          nn, l, ro, fo)

NextNAnyOrder(nn, l) ==
    IF l.tag[1] = "N" /\ "F" \in l.kinds THEN nn + 1 ELSE nn

\* if f_match: n += 1
NextN(nn, l) == IF FindAll(NGram(nn), "F", l) # <<>> THEN nn + 1 ELSE nn

\* The assertion on the mode flags, then the locals of the scan.
ParseBegin ==
    /\ ppc = "call"
    /\ IF recall_only /\ f_measure_only
       THEN ppc' = "AssertionError" /\ UNCHANGED <<n, result>>
       ELSE ppc' = "scan" /\ n' = 1 /\ result' = EmptyDict
    /\ UNCHANGED <<recall_only, f_measure_only, line, pos>>

\* output.decode("utf-8") of bytes that are not UTF-8 text.
ParseDecodeError ==
    /\ ppc = "call"
    /\ ~(recall_only /\ f_measure_only)
    /\ ppc' = "UnicodeDecodeError"
    /\ UNCHANGED <<recall_only, f_measure_only, line, pos, n, result>>

\* One iteration of the loop over outputs.
ParseLine ==
    /\ ppc = "scan"
    /\ pos < MaxLines
    /\ \E l \in Lines :
          /\ line' = l
          /\ result' = ScanLine(result, n, self, l, recall_only, f_measure_only)
          /\ n' = NextN(n, l)
    /\ pos' = pos + 1
    /\ UNCHANGED <<recall_only, f_measure_only, ppc>>

\* The end of outputs (strip().split always yields at least one line).
ParseReturn ==
    /\ ppc = "scan"
    /\ pos >= 1
    /\ ppc' = "done"
    /\ UNCHANGED <<recall_only, f_measure_only, line, pos, n, result>>

-----------------------------------------------------------------------------
(* convert_and_config *)

MODEL_IDS == <<"A", "B", "C", "D", "E", "F", "G">>

RECURSIVE JoinNL(_)
\* "\n".join(sents)
JoinNL(sents) ==
    IF sents = <<>> THEN <<>>
    ELSE IF Len(sents) = 1 THEN sents[1]
    ELSE sents[1] \o <<"\n">> \o JoinNL(Tail(sents))

StagedTextNoNewline(sents) == JoinNL(sents)

\* The text written to a staged file.
StagedText(sents) == JoinNL(sents) \o <<"\n">>

\* "{}_{}.txt".format(i, j)
FileName(i, j) == Str(i) \o "_" \o Str(j) \o ".txt"

\* sum_file_lists / ref_file_lists: per document, the names in variant order.
FileLists(corpus) ==
    [i \in 1..Len(corpus) |-> [j \in 1..Len(corpus[i]) |-> FileName(i - 1, j - 1)]]

\* The (document, variant) positions of a corpus, 1-based.
Cells(corpus) ==
    UNION {{<<i, j>> : j \in 1..Len(corpus[i])} : i \in 1..Len(corpus)}

\* The files one staging loop writes under root.
StagedFiles(root, corpus) ==
    {PathJoin(root, FileName(ij[1] - 1, ij[2] - 1)) : ij \in Cells(corpus)}

\* The text the loop writes to a path of StagedFiles(root, corpus).
StagedContent(root, corpus, path) ==
    LET ij == CHOOSE c \in Cells(corpus) :
                  path = PathJoin(root, FileName(c[1] - 1, c[2] - 1))
    IN  StagedText(corpus[ij[1]][ij[2]])

\* One element of config.xml: its tag, its ID (or version / TYPE)
\* attribute and its text.
Element(el, id, text) == [el |-> el, id |-> id, text |-> text]

PeerId(j) == Str(j)

PeerElements(sum_fl) ==
    [j \in 1..Len(sum_fl) |-> Element("P", PeerId(j), sum_fl[j])]

ModelIdShifted(j) == MODEL_IDS[IF j < Len(MODEL_IDS) THEN j + 1 ELSE j]

\* self.MODEL_IDS[j] of the 0-based j = jj - 1.
ModelId(jj) == MODEL_IDS[jj]

ModelElements(ref_fl) ==
    [j \in 1..Len(ref_fl) |-> Element("M", ModelId(j), ref_fl[j])]

EvalId(i) == Str(i)

\* The elements of the EVAL block of document i (1-based).
EvalBlock(i, sum_fl, ref_fl, summary_path, reference_path) ==
    << Element("EVAL", EvalId(i), ""),
       Element("PEER-ROOT", "", PathStr(summary_path)),
       Element("MODEL-ROOT", "", PathStr(reference_path)),
       Element("INPUT-FORMAT", "SPL", "\"") >>
    \o <<Element("PEERS", "", "")>> \o PeerElements(sum_fl)
    \o <<Element("/PEERS", "", "")>>
    \o <<Element("MODELS", "", "")>> \o ModelElements(ref_fl)
    \o <<Element("/MODELS", "", ""), Element("/EVAL", "", "")>>

Min(a, b) == IF a <= b THEN a ELSE b

RECURSIVE EvalBlocks(_, _, _, _, _)
\* The blocks of documents i .. of zip(sum_file_lists, ref_file_lists).
EvalBlocks(i, sum_fls, ref_fls, summary_path, reference_path) ==
    IF i > Min(Len(sum_fls), Len(ref_fls)) THEN <<>>
    ELSE EvalBlock(i, sum_fls[i], ref_fls[i], summary_path, reference_path)
         \o EvalBlocks(i + 1, sum_fls, ref_fls, summary_path, reference_path)

\* config_str
ConfigStr(sum_fls, ref_fls, summary_path, reference_path) ==
    <<Element("ROUGE-EVAL", "1.0", "")>>
    \o EvalBlocks(1, sum_fls, ref_fls, summary_path, reference_path)
    \o <<Element("/ROUGE-EVAL", "", "")>>

\* self.MODEL_IDS[j] raises IndexError for some reference variant.
IndexExhausted(ref_fls) ==
    \E i \in 1..Len(ref_fls) : Len(ref_fls[i]) > Len(MODEL_IDS)

\* mkdtemp(): a directory that does not exist yet.
TempDir(k) == <<"tmp", "tmp" \o Str(k)>>

SizeMismatchIgnored(sm, rf) == FALSE

\* The assertion on the two document counts fails.
SizeMismatch(sm, rf) == Len(sm) # Len(rf)

\* convert_and_config(summary, reference, output_dir) on the disk (ds, fs):
\* the exception it raises or "none", the disk it leaves, and what it returns.
ConvertAndConfig(sm, rf, od, ds, fs, tc) ==
    IF SizeMismatch(sm, rf)
    THEN [raises |-> "AssertionError", dirs |-> ds, files |-> fs, tmp_count |-> tc,
          output_dir |-> od, config_path |-> <<>>]
    ELSE
    LET out == IF od = <<>> THEN TempDir(tc + 1) ELSE od
        tc1 == IF od = <<>> THEN tc + 1 ELSE tc
        ds1 == ds \cup {out}
        summary_path == PathJoin(out, "system")
        reference_path == PathJoin(out, "reference")
    IN
    IF summary_path \in ds1 \/ reference_path \in ds1
    THEN [raises |-> "FileExistsError",
          dirs |-> IF summary_path \in ds1 THEN ds1 ELSE ds1 \cup {summary_path},
          files |-> fs, tmp_count |-> tc1,
          output_dir |-> out, config_path |-> <<>>]
    ELSE
    LET ds2 == ds1 \cup {summary_path, reference_path}
        staged == StagedFiles(summary_path, sm) \cup StagedFiles(reference_path, rf)
        cfg == PathJoin(out, "config.xml")
        fs1 == [f \in (DOMAIN fs) \cup staged |->
                   IF f \in StagedFiles(summary_path, sm)
                   THEN StagedContent(summary_path, sm, f)
                   ELSE IF f \in StagedFiles(reference_path, rf)
                   THEN StagedContent(reference_path, rf, f)
                   ELSE fs[f]]
        sum_fls == FileLists(sm)
        ref_fls == FileLists(rf)
    IN
    IF IndexExhausted(ref_fls)
    THEN [raises |-> "IndexError", dirs |-> ds2,
          files |-> Put(fs1, cfg, <<>>), tmp_count |-> tc1,
          output_dir |-> out, config_path |-> cfg]
    ELSE [raises |-> "none", dirs |-> ds2,
          files |-> Put(fs1, cfg, ConfigStr(sum_fls, ref_fls, summary_path, reference_path)),
          tmp_count |-> tc1, output_dir |-> out, config_path |-> cfg]

\* A direct call of convert_and_config.
StageCall ==
    /\ pc \in {"idle", "returned", "raised"}
    /\ calls < MaxCalls
    /\ LET r == ConvertAndConfig(summary, reference, arg_dir, dirs, files, tmp_count) IN
          /\ raised' = r.raises
          /\ pc' = IF r.raises = "none" THEN "returned" ELSE "raised"
          /\ dirs' = r.dirs
          /\ files' = r.files
          /\ tmp_count' = r.tmp_count
          /\ output_dir' = r.output_dir
          /\ config_path' = r.config_path
          /\ ret' = IF r.raises = "none" THEN <<r.output_dir, r.config_path>> ELSE <<>>
    /\ calls' = calls + 1
    /\ UNCHANGED <<summary, reference, to_dict, arg_dir, output>>

-----------------------------------------------------------------------------
(* evaluate *)

RECURSIVE ScanFrom(_, _, _, _, _, _)
\* The loop over outputs, from the locals (res, nn).
ScanFrom(lines, res, nn, s, ro, fo) ==
    IF lines = <<>> THEN res
    ELSE ScanFrom(Tail(lines), ScanLine(res, nn, s, Head(lines), ro, fo),
                  NextN(nn, Head(lines)), s, ro, fo)

\* output_to_dict(output, recall_only, f_measure_only) of decodable output
\* and flags that are not both set.
OutputToDict(lines, s, ro, fo) == ScanFrom(lines, EmptyDict, 1, s, ro, fo)

\* Captured output that is not UTF-8 text.
Undecodable == <<[tag |-> <<"bytes", 0>>, kinds |-> {}, score |-> 0]>>

\* What the external scorer may print when it exits with status zero.
SampleOutputs ==
    { <<NoLine>>,
      << [tag |-> NGram(1), kinds |-> {"R"}, score |-> 1],
         [tag |-> NGram(1), kinds |-> {"P"}, score |-> 2],
         [tag |-> NGram(1), kinds |-> {"F"}, score |-> 1],
         [tag |-> SU4, kinds |-> {"R"}, score |-> 2] >>,
      Undecodable }

\* evaluate, first statement: convert_and_config(summary, reference).
EvalStage ==
    /\ pc \in {"idle", "returned", "raised"}
    /\ calls < MaxCalls
    /\ LET r == ConvertAndConfig(summary, reference, <<>>, dirs, files, tmp_count) IN
          /\ raised' = r.raises
          /\ pc' = IF r.raises = "none" THEN "staged" ELSE "raised"
          /\ dirs' = r.dirs
          /\ files' = r.files
          /\ tmp_count' = r.tmp_count
          /\ output_dir' = r.output_dir
          /\ config_path' = r.config_path
    /\ calls' = calls + 1
    /\ output' = <<>>
    /\ ret' = <<>>
    /\ UNCHANGED <<summary, reference, to_dict, arg_dir, cmdVars>>

\* run_rouge: the scorer exits with status zero and its output is captured.
RunRougeOk ==
    /\ pc = "staged"
    /\ executed' = Append(executed, RougeCmd(PathStr(config_path)))
    /\ \E o \in SampleOutputs : output' = o
    /\ pc' = "scored"
    /\ UNCHANGED <<self, obj, rouge_cmd_tmp, summary, reference, to_dict, dirs,
                   files, arg_dir, output_dir, config_path, calls, tmp_count,
                   raised, ret>>

\* run_rouge: the scorer exits with a non-zero status; check_output raises
\* CalledProcessError, which evaluate does not catch.
RunRougeFail ==
    /\ pc = "staged"
    /\ executed' = Append(executed, RougeCmd(PathStr(config_path)))
    /\ raised' = "CalledProcessError"
    /\ pc' = "raised"
    /\ UNCHANGED <<self, obj, rouge_cmd_tmp, summary, reference, to_dict, dirs,
                   files, arg_dir, output_dir, config_path, calls, tmp_count,
                   output, ret>>

\* shutil.rmtree(output_dir)
RmTree ==
    /\ pc = "scored"
    /\ dirs' = {d \in dirs : ~Under(output_dir, d)}
    /\ files' = [f \in {g \in DOMAIN files : ~Under(output_dir, g)} |-> files[f]]
    /\ pc' = "cleaned"
    /\ UNCHANGED <<cmdVars, summary, reference, to_dict, arg_dir, output_dir,
                   config_path, calls, tmp_count, raised, output, ret>>

\* The optional output_to_dict(result) and the return.
EvalReturn ==
    /\ pc = "cleaned"
    /\ IF to_dict /\ output = Undecodable
       THEN raised' = "UnicodeDecodeError" /\ pc' = "raised" /\ UNCHANGED ret
       ELSE /\ ret' = IF to_dict THEN OutputToDict(output, self, FALSE, FALSE)
                               ELSE output
            /\ pc' = "returned"
            /\ UNCHANGED raised
    /\ UNCHANGED <<cmdVars, summary, reference, to_dict, dirs, files, arg_dir,
                   output_dir, config_path, calls, tmp_count, output>>

-----------------------------------------------------------------------------
(* SpecCmd: every configuration, constructed, then run_rouge calls *)

Flags == {"ROUGE_SU4", "ROUGE_L", "ROUGE_W", "stemming", "stopwords",
          "word_level", "length_limit", "use_cf", "resampling", "favor"}

ScoringFormulas == {"average", "best", "median", "", None}

Configs ==
    {[ROUGE_path |-> rp, data_path |-> dp, n_gram |-> ng,
      ROUGE_SU4 |-> b["ROUGE_SU4"], ROUGE_L |-> b["ROUGE_L"],
      ROUGE_W |-> b["ROUGE_W"], ROUGE_W_Weight |-> "1.2",
      stemming |-> b["stemming"], stopwords |-> b["stopwords"],
      word_level |-> b["word_level"], length_limit |-> b["length_limit"],
      length |-> ln, use_cf |-> b["use_cf"], cf |-> 95,
      scoring_formula |-> sf, resampling |-> b["resampling"],
      samples |-> 1000, favor |-> b["favor"], p |-> "0.5"] :
        rp \in {"", "ROUGE-1.5.5.pl"}, dp \in {"", "/opt/ROUGE-1.5.5/data"},
        ng \in 0..MaxNGram, ln \in 0..MaxLength, sf \in ScoringFormulas,
        b \in [Flags -> BOOLEAN]}

InitCmd ==
    /\ self \in Configs
    /\ obj = "new"
    /\ rouge_cmd_tmp = <<>>
    /\ executed = <<>>
    /\ ParseIdle
    /\ EvalIdle

NextCmd ==
    \/ Construct /\ UNCHANGED <<parseVars, evalVars>>
    \/ CmdRunRouge /\ UNCHANGED <<parseVars, evalVars>>

SpecCmd == InitCmd /\ [][NextCmd]_vars

-----------------------------------------------------------------------------
(* SpecParse: output_to_dict on every toggle setting and mode *)

ToggleConfigs ==
    {[DefaultConfig EXCEPT !.ROUGE_SU4 = a, !.ROUGE_L = b, !.ROUGE_W = c] :
        a \in BOOLEAN, b \in BOOLEAN, c \in BOOLEAN}

InitParse ==
    /\ self \in ToggleConfigs
    /\ obj = "constructed"
    /\ rouge_cmd_tmp = GetRougeCmd(self).cmd
    /\ executed = <<>>
    /\ recall_only \in BOOLEAN /\ f_measure_only \in BOOLEAN
    /\ ppc = "call" /\ line = NoLine /\ pos = 0 /\ n = 0
    /\ result = EmptyDict
    /\ EvalIdle

NextParse ==
    \/ ParseBegin /\ UNCHANGED <<cmdVars, evalVars>>
    \/ ParseDecodeError /\ UNCHANGED <<cmdVars, evalVars>>
    \/ ParseLine /\ UNCHANGED <<cmdVars, evalVars>>
    \/ ParseReturn /\ UNCHANGED <<cmdVars, evalVars>>

SpecParse == InitParse /\ [][NextParse]_vars

-----------------------------------------------------------------------------
(* SpecStage: convert_and_config on every small corpus *)

\* Sentence strings: the empty string, a word, a string with a line break.
Sentences == {<<>>, <<"a">>, <<"b", "\n", "c">>}

RECURSIVE SeqsOfLen(_, _)
SeqsOfLen(X, k) ==
    IF k = 0 THEN {<<>>}
    ELSE {Append(q, x) : q \in SeqsOfLen(X, k - 1), x \in X}

\* The weight of a corpus is the number of its documents, variants and
\* sentences.  A variant of weight w has w - 1 sentences.
VariantsOfWeight(w) == SeqsOfLen(Sentences, w - 1)

RECURSIVE VariantSeqs(_)
VariantSeqs(w) ==
    IF w = 0 THEN {<<>>}
    ELSE UNION {{<<v>> \o rest : v \in VariantsOfWeight(k), rest \in VariantSeqs(w - k)} :
                  k \in 1..w}

DocsOfWeight(w) == VariantSeqs(w - 1)

RECURSIVE DocSeqs(_)
DocSeqs(w) ==
    IF w = 0 THEN {<<>>}
    ELSE UNION {{<<d>> \o rest : d \in DocsOfWeight(k), rest \in DocSeqs(w - k)} :
                  k \in 1..w}

Corpora(maxw) == UNION {DocSeqs(w) : w \in 0..maxw}

\* One document with up to MaxRefs one-sentence variants.
ManyVariants == {<<[j \in 1..k |-> <<<<"a">>>>]>> : k \in 1..MaxRefs}

GivenDir == <<"data", "out">>

InitStage ==
    /\ self = DefaultConfig
    /\ obj = "constructed"
    /\ rouge_cmd_tmp = GetRougeCmd(self).cmd
    /\ executed = <<>>
    /\ ParseIdle
    /\ summary \in Corpora(MaxWeight)
    /\ reference \in Corpora(MaxWeight) \cup ManyVariants
    /\ arg_dir \in {<<>>, GivenDir}
    /\ to_dict = FALSE
    /\ pc = "idle" /\ dirs = {} /\ files = EmptyDict
    /\ output_dir = <<>> /\ config_path = <<>>
    /\ calls = 0 /\ tmp_count = 0 /\ raised = "none"
    /\ output = <<>> /\ ret = <<>>

NextStage == StageCall /\ UNCHANGED <<cmdVars, parseVars>>

SpecStage == InitStage /\ [][NextStage]_vars

-----------------------------------------------------------------------------
(* SpecEval: evaluate calls on one default evaluator *)

InitEval ==
    /\ self = DefaultConfig
    /\ obj = "constructed"
    /\ rouge_cmd_tmp = GetRougeCmd(self).cmd
    /\ executed = <<>>
    /\ ParseIdle
    /\ summary \in Corpora(MaxEvalWeight)
    /\ reference \in Corpora(MaxEvalWeight)
    /\ to_dict \in BOOLEAN
    /\ arg_dir = <<>>
    /\ pc = "idle" /\ dirs = {} /\ files = EmptyDict
    /\ output_dir = <<>> /\ config_path = <<>>
    /\ calls = 0 /\ tmp_count = 0 /\ raised = "none"
    /\ output = <<>> /\ ret = <<>>

NextEval ==
    \/ EvalStage /\ UNCHANGED parseVars
    \/ RunRougeOk /\ UNCHANGED parseVars
    \/ RunRougeFail /\ UNCHANGED parseVars
    \/ RmTree /\ UNCHANGED parseVars
    \/ EvalReturn /\ UNCHANGED parseVars

SpecEval == InitEval /\ [][NextEval]_vars

-----------------------------------------------------------------------------
(* Claims about the command line (SpecCmd) *)

\* a immediately followed by b somewhere in the argument list.
HasPair(cmd, a, b) ==
    \E i \in 1..(Len(cmd) - 1) : cmd[i] = a /\ cmd[i + 1] = b

\* Every option but scoring_formula is one the constructor accepts.
OtherwiseValid(s) ==
    /\ Truthy(s.ROUGE_path) /\ Truthy(s.data_path)
    /\ s.n_gram > 0
    /\ (s.length_limit => s.length > 0)

\* C3 as stated: every scoring_formula other than "average", the empty
\* string and None included, constructs an evaluator whose template holds
\* the pair -f B.
C3_Original ==
    (obj # "new" /\ OtherwiseValid(self) /\ self.scoring_formula # "average")
        => (obj = "constructed" /\ HasPair(rouge_cmd_tmp, "-f", "B"))

\* C3 as amended: every truthy scoring_formula other than "average"
\* constructs an evaluator whose template holds -f B and not -f A;
\* "average" gives -f A; a falsy scoring_formula ("" or None) makes the
\* constructor raise ValueError and no template is stored.
C3_ScoringFallback ==
    (obj # "new" /\ OtherwiseValid(self)) =>
        /\ (self.scoring_formula # "average" /\ Truthy(self.scoring_formula))
              => /\ obj = "constructed"
                 /\ HasPair(rouge_cmd_tmp, "-f", "B")
                 /\ ~HasPair(rouge_cmd_tmp, "-f", "A")
        /\ self.scoring_formula = "average"
              => /\ obj = "constructed"
                 /\ HasPair(rouge_cmd_tmp, "-f", "A")
                 /\ ~HasPair(rouge_cmd_tmp, "-f", "B")
        /\ ~Truthy(self.scoring_formula)
              => obj = "ValueError" /\ rouge_cmd_tmp = <<>>

C3_Witness ==
    /\ obj = "constructed"
    /\ self.scoring_formula = "median"
    /\ HasPair(rouge_cmd_tmp, "-f", "B")

\* The slots of the documented command line, in their documented order:
\* whether the slot is present and the arguments it contributes.
C6_Slots(s) ==
    << [on |-> TRUE, args |-> <<"perl", AbsPath(s.ROUGE_path)>>],
       [on |-> TRUE, args |-> <<"-e", AbsPath(s.data_path)>>],
       [on |-> TRUE, args |-> <<"-a">>],
       [on |-> TRUE, args |-> <<"-n", Str(s.n_gram)>>],
       [on |-> s.ROUGE_SU4, args |-> <<"-2", "4", "-u">>],
       [on |-> ~s.ROUGE_L, args |-> <<"-x">>],
       [on |-> s.ROUGE_W, args |-> <<"-w", s.ROUGE_W_Weight>>],
       [on |-> s.length_limit /\ s.word_level, args |-> <<"-l", Str(s.length)>>],
       [on |-> s.length_limit /\ ~s.word_level, args |-> <<"-b", Str(s.length)>>],
       [on |-> s.stemming, args |-> <<"-m">>],
       [on |-> s.stopwords, args |-> <<"-s">>],
       [on |-> s.use_cf, args |-> <<"-c", Str(s.cf)>>],
       [on |-> s.scoring_formula = "average", args |-> <<"-f", "A">>],
       [on |-> s.scoring_formula # "average", args |-> <<"-f", "B">>],
       [on |-> s.resampling, args |-> <<"-r", Str(s.samples)>>],
       [on |-> s.favor, args |-> <<"-p", s.p>>] >>

RECURSIVE C6_Flatten(_)
C6_Flatten(slots) ==
    IF slots = <<>> THEN <<>>
    ELSE (IF Head(slots).on THEN Head(slots).args ELSE <<>>)
         \o C6_Flatten(Tail(slots))

\* C6: on a constructed evaluator the cached template is the documented
\* argument list in the documented order, and every executed argument list
\* is that template followed by the call's job-descriptor path alone, so
\* earlier calls have left the template as it was.
C6_CommandLine ==
    obj = "constructed" =>
        /\ rouge_cmd_tmp = C6_Flatten(C6_Slots(self))
        /\ \A i \in 1..Len(executed) :
              /\ Len(executed[i]) = Len(rouge_cmd_tmp) + 1
              /\ SubSeq(executed[i], 1, Len(rouge_cmd_tmp)) = C6_Flatten(C6_Slots(self))
              /\ executed[i][Len(executed[i])] \in ConfigPaths

C6_Witness ==
    /\ obj = "constructed"
    /\ Len(executed) = 2
    /\ executed[1] # executed[2]
    /\ self.ROUGE_L /\ self.ROUGE_W /\ ~self.word_level /\ self.length_limit
    /\ self.use_cf /\ self.scoring_formula = "best"

-----------------------------------------------------------------------------
(* Claims about output_to_dict (SpecParse) *)

DefaultMode == ~recall_only /\ ~f_measure_only

Scanning == ppc \in {"scan", "done"}

\* This step is one iteration of the loop: it consumed line'.
Consumes == ppc = "scan" /\ pos' = pos + 1

\* The metrics whose block runs on the next line.
ActiveTags ==
    (IF self.ROUGE_SU4 THEN {SU4} ELSE {})
    \cup (IF self.ROUGE_L THEN {LCS} ELSE {})
    \cup (IF self.ROUGE_W THEN {WLCS} ELSE {})
    \cup {NGram(n)}

\* The step leaves key k as it was.
Kept(k) ==
    /\ (k \in DOMAIN result') = (k \in DOMAIN result)
    /\ k \in DOMAIN result => result'[k] = result[k]

\* The step stores the consumed line's score under key k.
Stored(k) == k \in DOMAIN result' /\ result'[k] = line'.score

\* The consumed line carries an Average_<kind> pattern of metric m.
Carries(m, kind) == line'.tag = m /\ kind \in line'.kinds

\* C2 as stated: in default mode the result never holds both m-P and m-F.
C2_Original ==
    (Scanning /\ DefaultMode) =>
        \A m \in AllTags :
            ~(Key(m, "-P") \in DOMAIN result /\ Key(m, "-F") \in DOMAIN result)

\* C2 as amended: in default mode every consumed line stores, for each
\* active metric m, m-R if it carries Average_R of m, and at most one of
\* m-P and m-F: m-P if it carries Average_P of m, otherwise m-F if it
\* carries Average_F of m.  What earlier lines stored is kept, so m-P and
\* m-F are both present once a P line and an F line of m were consumed.
C2_PerLineChoice ==
    [][(Consumes /\ DefaultMode) =>
        \A m \in ActiveTags :
            /\ IF Carries(m, "R") THEN Stored(Key(m, "-R")) ELSE Kept(Key(m, "-R"))
            /\ IF Carries(m, "P")
               THEN Stored(Key(m, "-P")) /\ Kept(Key(m, "-F"))
               ELSE /\ Kept(Key(m, "-P"))
                    /\ IF Carries(m, "F")
                       THEN Stored(Key(m, "-F")) ELSE Kept(Key(m, "-F"))
            /\ Key(m, "") \notin DOMAIN result']_vars

C2_Witness ==
    /\ Scanning /\ DefaultMode
    /\ Key(NGram(1), "-P") \in DOMAIN result
    /\ Key(NGram(1), "-F") \in DOMAIN result
    /\ line.tag = NGram(1) /\ line.kinds = {"F"}

FamilyEnabled(fam) ==
    CASE fam = "SU4" -> self.ROUGE_SU4
      [] fam = "L" -> self.ROUGE_L
      [] fam = "W" -> self.ROUGE_W
      [] OTHER -> TRUE

\* C4: in every mode a ROUGE-SU4, ROUGE-L or ROUGE-W key, with or without
\* suffix, is in the result only if the family's toggle is enabled, lines
\* of a disabled family leave the result as it was, and a line of the
\* current ROUGE-N order is stored whatever the toggles are.
C4_ToggleGating ==
    /\ [](\A k \in DOMAIN result : FamilyEnabled(k[1]))
    /\ [][Consumes =>
            /\ ~FamilyEnabled(line'.tag[1]) => result' = result
            /\ (Carries(NGram(n), "R") /\ ~f_measure_only)
                 => Stored(Key(NGram(n), IF recall_only THEN "" ELSE "-R"))
            /\ (Carries(NGram(n), "F") /\ f_measure_only)
                 => Stored(Key(NGram(n), ""))]_vars

C4_Witness ==
    /\ Scanning
    /\ ~self.ROUGE_SU4 /\ ~self.ROUGE_L /\ ~self.ROUGE_W
    /\ pos = 2
    /\ line.tag = LCS /\ line.kinds = Kinds
    /\ DOMAIN result = {Key(NGram(1), "-R")}

\* C5: in a single-value mode every key of the result is a bare metric
\* name; with recall_only a line changes the result only by storing the
\* score of an Average_R pattern it carries, with f_measure_only only by
\* storing the score of an Average_F pattern it carries.
C5_SingleValue ==
    /\ []((Scanning /\ ~DefaultMode) => \A k \in DOMAIN result : k[3] = "")
    /\ [][(Consumes /\ ~DefaultMode) =>
            LET kind == IF recall_only THEN "R" ELSE "F" IN
            \A m \in AllTags :
                IF m \in ActiveTags /\ Carries(m, kind)
                THEN Stored(Key(m, ""))
                ELSE Kept(Key(m, ""))]_vars

C5_Witness ==
    /\ Scanning /\ f_measure_only
    /\ pos = 2
    /\ line.tag = SU4 /\ line.kinds = {"R", "P"} /\ line.score = 2
    /\ DOMAIN result = {Key(SU4, "")}
    /\ result[Key(SU4, "")] = 1

\* C10: n is 1 when the scan starts; in every mode a line raises n by
\* exactly 1 if it carries Average_F of the current order n and leaves n
\* as it was otherwise; a ROUGE-N line of another order changes nothing;
\* so a ROUGE-k key is in the result only after k - 1 earlier lines
\* advanced n to k.
C10_OrderCounter ==
    /\ [](Scanning =>
            /\ n >= 1 /\ n <= pos + 1
            /\ \A k \in DOMAIN result : k[1] = "N" => (k[2] >= 1 /\ k[2] <= n))
    /\ [][/\ (ppc = "call" /\ ppc' = "scan") => n' = 1
          /\ Consumes =>
                /\ n' = IF Carries(NGram(n), "F") THEN n + 1 ELSE n
                /\ (line'.tag[1] = "N" /\ line'.tag # NGram(n)) => result' = result
                /\ \A k \in (DOMAIN result') \ (DOMAIN result) :
                      k[1] = "N" => k[2] = n]_vars

C10_Witness ==
    /\ Scanning /\ recall_only
    /\ n = 2 /\ pos = 2
    /\ Key(NGram(2), "") \in DOMAIN result
    /\ Key(NGram(1), "") \notin DOMAIN result

-----------------------------------------------------------------------------
(* Claims about convert_and_config (SpecStage) *)

\* "<i>_<j>.txt" of the 0-based document and variant indices.
StagedName(i, j) == Str(i) \o "_" \o Str(j) \o ".txt"

RECURSIVE SplitBlocks(_)
\* The EVAL ... /EVAL blocks of a job descriptor, in order.
SplitBlocks(els) ==
    IF els = <<>> THEN <<>>
    ELSE IF Head(els).el = "EVAL" /\ \E k \in 1..Len(els) : els[k].el = "/EVAL"
         THEN LET k == CHOOSE k \in 1..Len(els) :
                          /\ els[k].el = "/EVAL"
                          /\ \A h \in 1..(k - 1) : els[h].el # "/EVAL"
              IN  <<SubSeq(els, 1, k)>> \o SplitBlocks(SubSeq(els, k + 1, Len(els)))
         ELSE SplitBlocks(Tail(els))

\* The elements of a block with tag el, in order.
Children(block, el) == SelectSeq(block, LAMBDA e : e.el = el)

Letters == <<"A", "B", "C", "D", "E", "F", "G", "H", "I", "J">>

\* The descriptor holds one EVAL block per document, IDs 1..N in document
\* order; block i lists the peers of document i with IDs 1..k in variant
\* order and its models with the letters A, B, ... in variant order, no
\* letter twice.
WellFormedDescriptor(els) ==
    LET blocks == SplitBlocks(els) IN
    /\ Len(blocks) = Len(summary)
    /\ Len(Children(els, "EVAL")) = Len(summary)
    /\ \A i \in 1..Len(blocks) :
          LET peers == Children(blocks[i], "P")
              models == Children(blocks[i], "M")
          IN  /\ blocks[i][1].id = Str(i)
              /\ Len(peers) = Len(summary[i])
              /\ \A j \in 1..Len(peers) :
                    peers[j].id = Str(j) /\ peers[j].text = StagedName(i - 1, j - 1)
              /\ Len(models) = Len(reference[i])
              /\ \A j \in 1..Len(models) :
                    models[j].id = Letters[j] /\ models[j].text = StagedName(i - 1, j - 1)
              /\ \A j, h \in 1..Len(models) : j # h => models[j].id # models[h].id

TooManyVariants == \E i \in 1..Len(reference) : Len(reference[i]) > 7

\* C7 as stated: after convert_and_config ran on any equal-length pair
\* (the staging directories did not exist before), config.xml is a
\* well-formed descriptor of the documents.
C7_Original ==
    (calls >= 1 /\ Len(summary) = Len(reference) /\ raised # "FileExistsError")
        => /\ config_path \in DOMAIN files
           /\ WellFormedDescriptor(files[config_path])

\* C7 as amended: whenever convert_and_config returns, config.xml is a
\* well-formed descriptor of the documents and no document has more than
\* 7 reference variants; on an equal-length pair with a document of more
\* than 7 reference variants it raises IndexError and leaves config.xml
\* empty.
C7_Descriptor ==
    /\ pc = "returned"
         => /\ config_path \in DOMAIN files
            /\ WellFormedDescriptor(files[config_path])
            /\ ~TooManyVariants
    /\ (calls >= 1 /\ Len(summary) = Len(reference) /\ TooManyVariants
          /\ raised # "FileExistsError")
         => /\ pc = "raised" /\ raised = "IndexError"
            /\ config_path \in DOMAIN files
            /\ files[config_path] = <<>>

C7_Witness ==
    /\ pc = "returned"
    /\ Len(summary) = 2
    /\ Len(summary[1]) = 2
    /\ Len(reference[2]) = 2
    /\ Len(SplitBlocks(files[config_path])) = 2

RECURSIVE LinesFrom(_, _)
\* The lines of a text read back, without their line ends; cur is the
\* line being read.
LinesFrom(text, cur) ==
    IF text = <<>> THEN (IF cur = <<>> THEN <<>> ELSE <<cur>>)
    ELSE IF Head(text) = "\n" THEN <<cur>> \o LinesFrom(Tail(text), <<>>)
    ELSE LinesFrom(Tail(text), Append(cur, Head(text)))

ReadLines(text) == LinesFrom(text, <<>>)

RECURSIVE VariantCount(_)
VariantCount(corpus) ==
    IF corpus = <<>> THEN 0 ELSE Len(Head(corpus)) + VariantCount(Tail(corpus))

HasLineBreak(sentence) == \E c \in 1..Len(sentence) : sentence[c] = "\n"

\* Every variant of the corpus is staged under root as <i>_<j>.txt and
\* satisfies Good(variant, text), and root holds as many files as the
\* corpus has variants.
StagedAs(root, corpus, Good(_, _)) ==
    /\ \A ij \in Cells(corpus) :
          LET path == PathJoin(root, StagedName(ij[1] - 1, ij[2] - 1)) IN
          /\ path \in DOMAIN files
          /\ Good(corpus[ij[1]][ij[2]], files[path])
    /\ Cardinality({f \in DOMAIN files : Under(root, f)}) = VariantCount(corpus)

RoundTrip(variant, text) == ReadLines(text) = variant

RoundTripOfLines(variant, text) ==
    /\ text # <<>> /\ text[Len(text)] = "\n"
    /\ (variant # <<>> /\ \A k \in 1..Len(variant) : ~HasLineBreak(variant[k]))
          => ReadLines(text) = variant
    /\ variant = <<>> => ReadLines(text) = << <<>> >>

\* C8 as stated: every staged file reads back as exactly the sentences of
\* its variant, the empty variant included, and system/ and reference/
\* hold as many files as there are variants.
C8_Original ==
    pc = "returned" =>
        /\ StagedAs(PathJoin(output_dir, "system"), summary, RoundTrip)
        /\ StagedAs(PathJoin(output_dir, "reference"), reference, RoundTrip)

\* C8 as amended: every staged file ends with a line end; it reads back as
\* exactly the sentences of its variant when the variant is not empty and
\* no sentence contains a line break; the file of an empty variant reads
\* back as one empty line; system/ and reference/ hold as many files as
\* there are variants.
C8_RoundTrip ==
    pc = "returned" =>
        /\ StagedAs(PathJoin(output_dir, "system"), summary, RoundTripOfLines)
        /\ StagedAs(PathJoin(output_dir, "reference"), reference, RoundTripOfLines)

C8_Witness ==
    /\ pc = "returned"
    /\ \E ij \in Cells(summary) :
          /\ summary[ij[1]][ij[2]] = << <<"a">>, <<>> >>
          /\ files[PathJoin(PathJoin(output_dir, "system"),
                             StagedName(ij[1] - 1, ij[2] - 1))]
               = <<"a", "\n", "\n">>
    /\ VariantCount(reference) = 2

-----------------------------------------------------------------------------
(* Claims about evaluate (SpecEval) *)

\* The call that was started has ended.
CallEnded == calls >= 1 /\ pc \in {"returned", "raised"}

\* C1: once an evaluate call has ended, with the scorer's status zero or
\* with the process-execution error of run_rouge, the staging directory
\* of the call does not exist, and no staging directory is left.
C1_NoStagingLeft ==
    (CallEnded /\ raised \in {"none", "CalledProcessError"})
        => /\ output_dir \notin dirs
           /\ \A k \in 1..tmp_count : TempDir(k) \notin dirs

\* C9: on document counts that differ every evaluate call ends with the
\* assertion error of convert_and_config; no directory and no file has
\* been created and the scorer has not been invoked.
C9_SizeMismatch ==
    Len(summary) # Len(reference) =>
        /\ pc \in {"idle", "raised"}
        /\ calls >= 1 => (pc = "raised" /\ raised = "AssertionError")
        /\ dirs = {} /\ DOMAIN files = {} /\ tmp_count = 0
        /\ executed = <<>>

C9_Witness ==
    /\ Len(summary) = 1 /\ Len(reference) = 2
    /\ calls = 2
    /\ pc = "raised" /\ raised = "AssertionError"

=============================================================================
